---- MODULE Spec2Model ----
(***************************************************************************)
(* Local media synchronisation of the Efotos gallery server:               *)
(*   server/fileScanner.ts  - directory scanner (scanLocalMediaFiles)      *)
(*   server/localFileSync.ts - sync engine (syncLocalMediaFiles) and the   *)
(*                             in-process lock (syncWithLock)              *)
(* The content store (server/storage.ts) is an external collaborator; its  *)
(* four operations are modelled over a sequence of records.                *)
(***************************************************************************)
EXTENDS Integers, Sequences, FiniteSets, TLC

\* ------------------------------------------------------------------ bounds
NumCalls == 2        \* number of syncWithLock invocations
MaxFsChanges == 1    \* number of filesystem changes made by the environment
MaxStatFail == 1     \* entries whose stat rejects, per scan
MaxThrown == 1       \* rejected scan / store operations, per run

Calls == 1..NumCalls

\* null / undefined (a record, so that it compares with paths and records)
Null == [null |-> TRUE]

\* ------------------------------------------------- fileScanner.ts constants
IMAGES_DIR == "images"
VIDEOS_DIR == "videos"
Dirs == {IMAGES_DIR, VIDEOS_DIR}

IMAGE_EXTENSIONS == {".jpg", ".jpeg", ".png", ".gif", ".webp", ".bmp"}
VIDEO_EXTENSIONS == {".mp4", ".mov", ".avi", ".mkv", ".webm", ".m4v"}

\* A file name is kept as stem and extension (the split path.extname makes).
\* path.join(dirPath, file)
PathJoin(dirPath, file) == [dir |-> dirPath, stem |-> file.stem, ext |-> file.ext]

Paths == { PathJoin(IMAGES_DIR, [stem |-> "a", ext |-> ".jpg"]),
           PathJoin(IMAGES_DIR, [stem |-> "C", ext |-> ".PNG"]),
           PathJoin(VIDEOS_DIR, [stem |-> "b", ext |-> ".mp4"]),
           PathJoin(IMAGES_DIR, [stem |-> "d", ext |-> ".mp4"]) }

\* A fixed enumeration of the paths, used as the directory-listing order.
PathOrder == << PathJoin(IMAGES_DIR, [stem |-> "a", ext |-> ".jpg"]),
                PathJoin(IMAGES_DIR, [stem |-> "C", ext |-> ".PNG"]),
                PathJoin(IMAGES_DIR, [stem |-> "d", ext |-> ".mp4"]),
                PathJoin(VIDEOS_DIR, [stem |-> "b", ext |-> ".mp4"]) >>

Absent == 0          \* disk[p] = Absent: no such file
Sizes == {1, 2}      \* file sizes (stats.size)

\* path.extname(file)
ExtName(file) == file.ext

\* String.prototype.toLowerCase on an extension
ToLowerCase(ext) ==
    CASE ext = ".JPG" -> ".jpg"
      [] ext = ".PNG" -> ".png"
      [] ext = ".MP4" -> ".mp4"
      [] OTHER -> ext

\* path.basename(file, ext): the suffix is stripped only when the file name
\* ends with ext exactly (case-sensitive); a title is the tuple of name parts.
BaseName(file, ext) ==
    IF file.ext = ext THEN <<file.stem>> ELSE <<file.stem, file.ext>>

getMimeType(extension) ==
    LET e == ToLowerCase(extension) IN
    CASE e = ".jpg"  -> "image/jpeg"
      [] e = ".jpeg" -> "image/jpeg"
      [] e = ".png"  -> "image/png"
      [] e = ".gif"  -> "image/gif"
      [] e = ".webp" -> "image/webp"
      [] e = ".bmp"  -> "image/bmp"
      [] e = ".mp4"  -> "video/mp4"
      [] e = ".mov"  -> "video/quicktime"
      [] e = ".avi"  -> "video/x-msvideo"
      [] e = ".mkv"  -> "video/x-matroska"
      [] e = ".webm" -> "video/webm"
      [] e = ".m4v"  -> "video/x-m4v"
      [] OTHER -> "application/octet-stream"

\* The LocalFileInfo pushed by scanDirectory for one directory entry.
LocalFileInfo(dirPath, type, file, size) ==
    LET ext == ToLowerCase(ExtName(file)) IN
    [ title         |-> BaseName(file, ext),
      type          |-> type,
      localFilePath |-> PathJoin(dirPath, file),
      mimeType      |-> getMimeType(ext),
      fileSize      |-> size ]

\* fs.readdir(dirPath): the names present in dirPath, in listing order.
ReadDir(d, dirPath) ==
    LET present == SelectSeq(PathOrder, LAMBDA p : p.dir = dirPath /\ d[p] # Absent)
    IN  [k \in 1..Len(present) |-> [stem |-> present[k].stem, ext |-> present[k].ext]]

\* scanDirectory that keeps an entry whose stat rejected.
scanDirectory_NoSkip(d, dirPath, type, allowedExtensions, statFail) ==
    LET files == ReadDir(d, dirPath)
        kept  == SelectSeq(files, LAMBDA file :
                     ToLowerCase(ExtName(file)) \in allowedExtensions)
    IN  [k \in 1..Len(kept) |->
            LocalFileInfo(dirPath, type, kept[k], d[PathJoin(dirPath, kept[k])])]

\* scanDirectory that gives up on the directory at the first stat rejection.
scanDirectory_Abort(d, dirPath, type, allowedExtensions, statFail) ==
    LET files == ReadDir(d, dirPath)
        kept  == SelectSeq(files, LAMBDA file :
                     ToLowerCase(ExtName(file)) \in allowedExtensions)
    IN  IF \E k \in 1..Len(kept) : PathJoin(dirPath, kept[k]) \in statFail
        THEN <<>>
        ELSE [k \in 1..Len(kept) |->
                LocalFileInfo(dirPath, type, kept[k], d[PathJoin(dirPath, kept[k])])]

\* scanDirectory that accepts the extensions of both media kinds.
scanDirectory_AnyMedia(d, dirPath, type, allowedExtensions, statFail) ==
    LET files == ReadDir(d, dirPath)
        kept  == SelectSeq(files, LAMBDA file :
                     /\ ToLowerCase(ExtName(file)) \in IMAGE_EXTENSIONS \cup VIDEO_EXTENSIONS
                     /\ PathJoin(dirPath, file) \notin statFail)
    IN  [k \in 1..Len(kept) |->
            LocalFileInfo(dirPath, type, kept[k], d[PathJoin(dirPath, kept[k])])]

\* scanDirectory on an existing directory; statFail is the set of paths
\* whose fs.stat rejects during this scan (those entries are skipped).
scanDirectory(d, dirPath, type, allowedExtensions, statFail) ==
    LET files == ReadDir(d, dirPath)
        kept  == SelectSeq(files, LAMBDA file :
                     /\ ToLowerCase(ExtName(file)) \in allowedExtensions
                     /\ PathJoin(dirPath, file) \notin statFail)
    IN  [k \in 1..Len(kept) |->
            LocalFileInfo(dirPath, type, kept[k], d[PathJoin(dirPath, kept[k])])]

\* scanLocalMediaFiles: images first, then videos.
scanLocalMediaFiles(d, statFail) ==
    scanDirectory(d, IMAGES_DIR, "image", IMAGE_EXTENSIONS, statFail)
      \o scanDirectory(d, VIDEOS_DIR, "video", VIDEO_EXTENSIONS, statFail)

\* The entries of the disk a scan stats (allow-listed for their directory).
StatCandidates(d) ==
    { p \in Paths : /\ d[p] # Absent
                    /\ \/ p.dir = IMAGES_DIR /\ ToLowerCase(p.ext) \in IMAGE_EXTENSIONS
                       \/ p.dir = VIDEOS_DIR /\ ToLowerCase(p.ext) \in VIDEO_EXTENSIONS }

convertToInsertContent(fileInfo) ==
    [ title         |-> fileInfo.title,
      type          |-> fileInfo.type,
      localFilePath |-> fileInfo.localFilePath,
      mimeType      |-> fileInfo.mimeType,
      fileSize      |-> fileInfo.fileSize,
      googleDriveId |-> Null ]

\* ------------------------------------------------------- the content store
\* A record kept for a remote (Google Drive) item: no local path.
RemoteRecord ==
    [ title |-> <<"r">>, type |-> "image", localFilePath |-> Null,
      mimeType |-> "image/jpeg", fileSize |-> 1, googleDriveId |-> "g1" ]

getAllContent(s) == s

getContentByLocalPath(s, path) ==
    LET hits == SelectSeq(s, LAMBDA r : r.localFilePath = path)
    IN  IF Len(hits) = 0 THEN Null ELSE hits[1]

createContent(s, ins) == Append(s, ins)

deleteContentByLocalPath(s, path) ==
    SelectSeq(s, LAMBDA r : r.localFilePath # path)

\* ------------------------------------------------------------------- state
VARIABLES
    disk,        \* [Paths -> {Absent} \cup Sizes]: the files of the media root
    dirs,        \* the directories of Dirs that exist
    fsEpoch,     \* number of filesystem changes made by the environment
    change,      \* the latest filesystem change made by the environment
    store,       \* the content store: a sequence of content records
    isSyncing,   \* localFileSync.ts: let isSyncing
    pc,          \* per invocation: where it is suspended
    localFiles,  \* per invocation: const localFiles
    allContent,  \* per invocation: const allContent
    i,           \* per invocation: position of the additions loop
    j,           \* per invocation: position of the removals loop
    result,      \* per invocation: const result: SyncResult
    ret,         \* per invocation: value syncWithLock returned
    ops,         \* per invocation: store mutations issued, in order
    fails,       \* per invocation: I/O operations that rejected during the run
    epoch0       \* per invocation: fsEpoch when it was invoked

vars == << disk, dirs, fsEpoch, change, store, isSyncing, pc, localFiles, allContent,
           i, j, result, ret, ops, fails, epoch0 >>

fsVars == << disk, dirs, fsEpoch, change >>
locVars == << localFiles, allContent >>

NoFails == [stat |-> 0, access |-> 0, thrown |-> 0]

Pending == [pending |-> TRUE]     \* the invocation has not returned

EmptyResult == [added |-> 0, removed |-> 0, unchanged |-> 0, errors |-> <<>>]

\* const localFilePaths = new Set(localFiles.map(f => f.localFilePath))
localFilePaths(c) == { localFiles[c][k].localFilePath : k \in 1..Len(localFiles[c]) }

\* const dbLocalContent = allContent.filter(c => c.localFilePath)
dbLocalContent(c) == SelectSeq(allContent[c], LAMBDA r : r.localFilePath # Null)

\* fs.access(path) resolves
Accessible(path) == path \in Paths /\ disk[path] # Absent

RunningPcs == {"scan", "getAll", "lookup", "create", "access", "delete", "finally"}
Running(c) == pc[c] \in RunningPcs

\* The record the store holds for a file the sync added earlier.
RecordOf(p, size) ==
    convertToInsertContent(
        LocalFileInfo(p.dir, IF p.dir = IMAGES_DIR THEN "image" ELSE "video",
                      [stem |-> p.stem, ext |-> p.ext], size))

RECURSIVE SeqOfPaths(_, _)
SeqOfPaths(S, k) ==
    IF k > Len(PathOrder) THEN <<>>
    ELSE (IF PathOrder[k] \in S THEN <<RecordOf(PathOrder[k], 1)>> ELSE <<>>)
           \o SeqOfPaths(S, k + 1)

\* Stores the program may start with: empty (first start), a single record
\* of a file an earlier sync added, or a remote record next to the records
\* of earlier files.
InitStores ==
    { <<>>,
      SeqOfPaths({p \in Paths : p.stem = "a"}, 1),
      <<RemoteRecord>> \o SeqOfPaths({p \in Paths : p.stem \in {"C", "d"}}, 1) }

\* Contents of the media directories the program may start with (by stem).
InitFiles == { {}, {"a", "b"}, {"a", "C", "b"}, {"a", "d"}, {"d"} }

\* A filesystem change: what was done to which path, and whether no sync run
\* was active at that moment.
NoChange == [kind |-> "none", from |-> Null, to |-> Null, idle |-> TRUE]

Init ==
    /\ \E S \in InitFiles : disk = [p \in Paths |-> IF p.stem \in S THEN 1 ELSE Absent]
    /\ dirs \in {Dirs, {p.dir : p \in {q \in Paths : disk[q] # Absent}}}
    /\ dirs # Dirs => dirs = {}
    /\ fsEpoch = 0
    /\ change = NoChange
    /\ store \in InitStores
    /\ isSyncing = FALSE
    /\ pc = [c \in Calls |-> "idle"]
    /\ localFiles = [c \in Calls |-> <<>>]
    /\ allContent = [c \in Calls |-> <<>>]
    /\ i = [c \in Calls |-> 1]
    /\ j = [c \in Calls |-> 1]
    /\ result = [c \in Calls |-> EmptyResult]
    /\ ret = [c \in Calls |-> Pending]
    /\ ops = [c \in Calls |-> <<>>]
    /\ fails = [c \in Calls |-> NoFails]
    /\ epoch0 = [c \in Calls |-> 0]

\* ------------------------------------------------------------ syncWithLock
\* syncWithLock without the isSyncing test.
syncWithLock_NoCheck(c) ==
    /\ pc[c] = "idle"
    /\ \A b \in Calls : b < c => pc[b] # "idle"
    /\ epoch0' = [epoch0 EXCEPT ![c] = fsEpoch]
    /\ isSyncing' = TRUE
    /\ pc' = [pc EXCEPT ![c] = "scan"]
    /\ UNCHANGED << fsVars, store, locVars, i, j, result, ops, fails, ret >>

\* syncWithLock that never sets the flag.
syncWithLock_NoSet(c) ==
    /\ pc[c] = "idle"
    /\ \A b \in Calls : b < c => pc[b] # "idle"
    /\ epoch0' = [epoch0 EXCEPT ![c] = fsEpoch]
    /\ IF isSyncing
       THEN /\ pc' = [pc EXCEPT ![c] = "done"]
            /\ ret' = [ret EXCEPT ![c] = Null]
       ELSE /\ pc' = [pc EXCEPT ![c] = "scan"]
            /\ UNCHANGED ret
    /\ UNCHANGED << fsVars, store, isSyncing, locVars, i, j, result, ops, fails >>

\* syncWithLock whose skip branch clears the flag.
syncWithLock_SkipClears(c) ==
    /\ pc[c] = "idle"
    /\ \A b \in Calls : b < c => pc[b] # "idle"
    /\ epoch0' = [epoch0 EXCEPT ![c] = fsEpoch]
    /\ IF isSyncing
       THEN /\ pc' = [pc EXCEPT ![c] = "done"]
            /\ ret' = [ret EXCEPT ![c] = Null]
            /\ isSyncing' = FALSE
       ELSE /\ isSyncing' = TRUE
            /\ pc' = [pc EXCEPT ![c] = "scan"]
            /\ UNCHANGED ret
    /\ UNCHANGED << fsVars, store, locVars, i, j, result, ops, fails >>

\* Invocation c of syncWithLock, up to its first suspension point.
\* Invocations are numbered in the order they are made.
syncWithLock(c) ==
    /\ pc[c] = "idle"
    /\ \A b \in Calls : b < c => pc[b] # "idle"
    /\ epoch0' = [epoch0 EXCEPT ![c] = fsEpoch]
    /\ IF isSyncing
       THEN /\ pc' = [pc EXCEPT ![c] = "done"]
            /\ ret' = [ret EXCEPT ![c] = Null]
            /\ UNCHANGED isSyncing
       ELSE /\ isSyncing' = TRUE
            /\ pc' = [pc EXCEPT ![c] = "scan"]
            /\ UNCHANGED ret
    /\ UNCHANGED << fsVars, store, locVars, i, j, result, ops, fails >>

\* The return without the finally block.
Finally_NoRelease(c) ==
    /\ pc[c] = "finally"
    /\ pc' = [pc EXCEPT ![c] = "done"]
    /\ ret' = [ret EXCEPT ![c] = result[c]]
    /\ localFiles' = [localFiles EXCEPT ![c] = <<>>]
    /\ allContent' = [allContent EXCEPT ![c] = <<>>]
    /\ i' = [i EXCEPT ![c] = 1]
    /\ j' = [j EXCEPT ![c] = 1]
    /\ ops' = [ops EXCEPT ![c] = <<>>]
    /\ UNCHANGED << fsVars, store, isSyncing, result, fails, epoch0 >>

\* finally { isSyncing = false } and the return of the engine's result
Finally(c) ==
    /\ pc[c] = "finally"
    /\ isSyncing' = FALSE
    /\ pc' = [pc EXCEPT ![c] = "done"]
    /\ ret' = [ret EXCEPT ![c] = result[c]]
    \* the engine's locals go out of scope
    /\ localFiles' = [localFiles EXCEPT ![c] = <<>>]
    /\ allContent' = [allContent EXCEPT ![c] = <<>>]
    /\ i' = [i EXCEPT ![c] = 1]
    /\ j' = [j EXCEPT ![c] = 1]
    /\ ops' = [ops EXCEPT ![c] = <<>>]
    /\ UNCHANGED << fsVars, store, result, fails, epoch0 >>

\* ----------------------------------------------------- syncLocalMediaFiles
\* result.errors.push(`Error adding ${fileInfo.title}: ${error}`)
AddError(r, title) ==
    [r EXCEPT !.errors = Append(@, [msg |-> "Error adding", title |-> title])]

\* The outer catch returning a fresh result with only its own entry.
SyncFailed_Reset(r) ==
    [EmptyResult EXCEPT !.errors = Append(r.errors, [msg |-> "Sync failed", title |-> <<>>])]

\* result.errors.push(`Sync failed: ${error}`)
SyncFailed(r) ==
    [r EXCEPT !.errors = Append(@, [msg |-> "Sync failed", title |-> <<>>])]

\* First position >= k of db (dbLocalContent) the removals loop acts on:
\* records whose path is in lfp (localFilePaths) are passed over.
\* The removals loop acting on every listed record, scanned or not.
NextStale_All(db, lfp, k) == k

RECURSIVE NextStale(_, _, _)
NextStale(db, lfp, k) ==
    IF k > Len(db) THEN k
    ELSE IF db[k].localFilePath = Null THEN NextStale(db, lfp, k + 1)
    ELSE IF db[k].localFilePath \notin lfp THEN k
    ELSE NextStale(db, lfp, k + 1)

LocalOnly(ac) == SelectSeq(ac, LAMBDA r : r.localFilePath # Null)

\* The engine without its removals pass.
GotoRemovals_Skip(c, k, ac) ==
    /\ j' = [j EXCEPT ![c] = Len(LocalOnly(ac)) + 1]
    /\ pc' = [pc EXCEPT ![c] = "finally"]

\* Control after the removals loop moved on to position k (or left the loop).
GotoRemovals(c, k, ac) ==
    LET db == LocalOnly(ac)
        n  == NextStale(db, localFilePaths(c), k)
    IN  /\ j' = [j EXCEPT ![c] = n]
        /\ pc' = [pc EXCEPT ![c] = IF n <= Len(db) THEN "access" ELSE "finally"]

\* Control after the additions loop moved on to position k (or left the loop).
GotoAdditions(c, k, ac) ==
    /\ i' = [i EXCEPT ![c] = k]
    /\ IF k <= Len(localFiles[c])
       THEN /\ pc' = [pc EXCEPT ![c] = "lookup"]
            /\ UNCHANGED j
       ELSE GotoRemovals(c, 1, ac)

Thrown(c) == [fails EXCEPT ![c].thrown = @ + 1]

\* const localFiles = await scanLocalMediaFiles(): resolves.  A missing
\* directory is created and yields nothing; statFail are the entries whose
\* stat rejects.
ScanOk(c) ==
    /\ pc[c] = "scan"
    /\ \E statFail \in SUBSET StatCandidates(disk) :
          /\ Cardinality(statFail) <= MaxStatFail
          /\ localFiles' = [localFiles EXCEPT ![c] =
                (IF IMAGES_DIR \in dirs
                 THEN scanDirectory(disk, IMAGES_DIR, "image", IMAGE_EXTENSIONS, statFail)
                 ELSE <<>>)
                \o
                (IF VIDEOS_DIR \in dirs
                 THEN scanDirectory(disk, VIDEOS_DIR, "video", VIDEO_EXTENSIONS, statFail)
                 ELSE <<>>)]
          /\ fails' = [fails EXCEPT ![c].stat = @ + Cardinality(statFail)]
    /\ dirs' = Dirs
    /\ pc' = [pc EXCEPT ![c] = "getAll"]
    /\ UNCHANGED << disk, fsEpoch, change, store, isSyncing, allContent, i, j,
                    result, ret, ops, epoch0 >>

\* scanLocalMediaFiles rejects (readdir or mkdir fails): the outer catch.
ScanFails(c) ==
    /\ pc[c] = "scan"
    /\ fails[c].thrown < MaxThrown
    /\ \E made \in SUBSET (Dirs \ dirs) : dirs' = dirs \cup made
    /\ result' = [result EXCEPT ![c] = SyncFailed(@)]
    /\ fails' = Thrown(c)
    /\ pc' = [pc EXCEPT ![c] = "finally"]
    /\ UNCHANGED << disk, fsEpoch, change, store, isSyncing, locVars, i, j, ret, ops, epoch0 >>

\* const allContent = await storage.getAllContent(): resolves.
GetAllOk(c) ==
    /\ pc[c] = "getAll"
    /\ allContent' = [allContent EXCEPT ![c] = getAllContent(store)]
    /\ GotoAdditions(c, 1, getAllContent(store))
    /\ UNCHANGED << fsVars, store, isSyncing, localFiles, result, ret, ops,
                    fails, epoch0 >>

GetAllFails(c) ==
    /\ pc[c] = "getAll"
    /\ fails[c].thrown < MaxThrown
    /\ result' = [result EXCEPT ![c] = SyncFailed(@)]
    /\ fails' = Thrown(c)
    /\ pc' = [pc EXCEPT ![c] = "finally"]
    /\ UNCHANGED << fsVars, store, isSyncing, locVars, i, j, ret, ops, epoch0 >>

\* The lookup whose "present" branch does not count the file.
LookupOk_NoUnchanged(c) ==
    /\ pc[c] = "lookup"
    /\ LET fileInfo == localFiles[c][i[c]]
           existing == getContentByLocalPath(store, fileInfo.localFilePath)
       IN  IF existing = Null
           THEN /\ pc' = [pc EXCEPT ![c] = "create"]
                /\ UNCHANGED << i, j, result >>
           ELSE /\ UNCHANGED result
                /\ GotoAdditions(c, i[c] + 1, allContent[c])
    /\ UNCHANGED << fsVars, store, isSyncing, locVars, ret, ops, fails, epoch0 >>

\* The lookup that takes every file for a new one.
LookupOk_AlwaysAbsent(c) ==
    /\ pc[c] = "lookup"
    /\ pc' = [pc EXCEPT ![c] = "create"]
    /\ UNCHANGED << i, j, result >>
    /\ UNCHANGED << fsVars, store, isSyncing, locVars, ret, ops, fails, epoch0 >>

\* The lookup whose "present" branch rewrites the record from the descriptor.
LookupOk_Update(c) ==
    /\ pc[c] = "lookup"
    /\ LET fileInfo == localFiles[c][i[c]]
           existing == getContentByLocalPath(store, fileInfo.localFilePath)
       IN  IF existing = Null
           THEN /\ pc' = [pc EXCEPT ![c] = "create"]
                /\ UNCHANGED << i, j, result, store >>
           ELSE /\ result' = [result EXCEPT ![c].unchanged = @ + 1]
                /\ store' = [k \in DOMAIN store |->
                                IF store[k].localFilePath = fileInfo.localFilePath
                                THEN convertToInsertContent(fileInfo)
                                ELSE store[k]]
                /\ GotoAdditions(c, i[c] + 1, allContent[c])
    /\ UNCHANGED << fsVars, isSyncing, locVars, ret, ops, fails, epoch0 >>

\* const existing = await storage.getContentByLocalPath(...): resolves.
LookupOk(c) ==
    /\ pc[c] = "lookup"
    /\ LET fileInfo == localFiles[c][i[c]]
           existing == getContentByLocalPath(store, fileInfo.localFilePath)
       IN  IF existing = Null
           THEN /\ pc' = [pc EXCEPT ![c] = "create"]
                /\ UNCHANGED << i, j, result >>
           ELSE /\ result' = [result EXCEPT ![c].unchanged = @ + 1]
                /\ GotoAdditions(c, i[c] + 1, allContent[c])
    /\ UNCHANGED << fsVars, store, isSyncing, locVars, ret, ops, fails, epoch0 >>

\* getContentByLocalPath rejects: the per-descriptor catch.
LookupFails(c) ==
    /\ pc[c] = "lookup"
    /\ fails[c].thrown < MaxThrown
    /\ result' = [result EXCEPT ![c] = AddError(@, localFiles[c][i[c]].title)]
    /\ fails' = Thrown(c)
    /\ GotoAdditions(c, i[c] + 1, allContent[c])
    /\ UNCHANGED << fsVars, store, isSyncing, locVars, ret, ops, epoch0 >>

\* The insert that does not count the file.
CreateOk_NoCount(c) ==
    /\ pc[c] = "create"
    /\ LET fileInfo == localFiles[c][i[c]]
       IN  /\ store' = createContent(store, convertToInsertContent(fileInfo))
           /\ ops' = [ops EXCEPT ![c] = Append(@, <<"create", fileInfo.localFilePath>>)]
    /\ UNCHANGED result
    /\ GotoAdditions(c, i[c] + 1, allContent[c])
    /\ UNCHANGED << fsVars, isSyncing, locVars, ret, fails, epoch0 >>

\* await storage.createContent(convertToInsertContent(fileInfo)): resolves.
CreateOk(c) ==
    /\ pc[c] = "create"
    /\ LET fileInfo == localFiles[c][i[c]]
       IN  /\ store' = createContent(store, convertToInsertContent(fileInfo))
           /\ ops' = [ops EXCEPT ![c] = Append(@, <<"create", fileInfo.localFilePath>>)]
    /\ result' = [result EXCEPT ![c].added = @ + 1]
    /\ GotoAdditions(c, i[c] + 1, allContent[c])
    /\ UNCHANGED << fsVars, isSyncing, locVars, ret, fails, epoch0 >>

\* createContent rejecting with no per-descriptor catch: the outer catch.
CreateFails_Abort(c) ==
    /\ pc[c] = "create"
    /\ fails[c].thrown < MaxThrown
    /\ LET fileInfo == localFiles[c][i[c]]
       IN  ops' = [ops EXCEPT ![c] = Append(@, <<"create", fileInfo.localFilePath>>)]
    /\ result' = [result EXCEPT ![c] = SyncFailed(@)]
    /\ fails' = Thrown(c)
    /\ pc' = [pc EXCEPT ![c] = "finally"]
    /\ UNCHANGED << fsVars, store, isSyncing, locVars, i, j, ret, epoch0 >>

\* createContent rejects: the per-descriptor catch.
CreateFails(c) ==
    /\ pc[c] = "create"
    /\ fails[c].thrown < MaxThrown
    /\ LET fileInfo == localFiles[c][i[c]]
       IN  /\ ops' = [ops EXCEPT ![c] = Append(@, <<"create", fileInfo.localFilePath>>)]
           /\ result' = [result EXCEPT ![c] = AddError(@, fileInfo.title)]
    /\ fails' = Thrown(c)
    /\ GotoAdditions(c, i[c] + 1, allContent[c])
    /\ UNCHANGED << fsVars, store, isSyncing, locVars, ret, epoch0 >>

\* await fs.access(dbContent.localFilePath): resolves.
AccessOk(c) ==
    /\ pc[c] = "access"
    /\ Accessible(dbLocalContent(c)[j[c]].localFilePath)
    /\ result' = [result EXCEPT ![c].unchanged = @ + 1]
    /\ GotoRemovals(c, j[c] + 1, allContent[c])
    /\ UNCHANGED << fsVars, store, isSyncing, locVars, i, ret, ops, fails, epoch0 >>

\* The removals loop entering the catch block whatever fs.access reports.
AccessFails_Always(c) ==
    /\ pc[c] = "access"
    /\ fails' = [fails EXCEPT ![c].access = @ + 1]
    /\ pc' = [pc EXCEPT ![c] = "delete"]
    /\ UNCHANGED << fsVars, store, isSyncing, locVars, i, j, result, ret, ops, epoch0 >>

\* The removals loop with an empty catch block: the record stays.
AccessFails_Keep(c) ==
    /\ pc[c] = "access"
    /\ ~Accessible(dbLocalContent(c)[j[c]].localFilePath)
    /\ fails' = [fails EXCEPT ![c].access = @ + 1]
    /\ GotoRemovals(c, j[c] + 1, allContent[c])
    /\ UNCHANGED << fsVars, store, isSyncing, locVars, i, result, ret, ops, epoch0 >>

\* fs.access rejects: control enters the catch block.
AccessFails(c) ==
    /\ pc[c] = "access"
    /\ ~Accessible(dbLocalContent(c)[j[c]].localFilePath)
    /\ fails' = [fails EXCEPT ![c].access = @ + 1]
    /\ pc' = [pc EXCEPT ![c] = "delete"]
    /\ UNCHANGED << fsVars, store, isSyncing, locVars, i, j, result, ret, ops, epoch0 >>

\* The delete that does not count the record.
DeleteOk_NoCount(c) ==
    /\ pc[c] = "delete"
    /\ LET path == dbLocalContent(c)[j[c]].localFilePath
       IN  /\ store' = deleteContentByLocalPath(store, path)
           /\ ops' = [ops EXCEPT ![c] = Append(@, <<"delete", path>>)]
    /\ UNCHANGED result
    /\ GotoRemovals(c, j[c] + 1, allContent[c])
    /\ UNCHANGED << fsVars, isSyncing, locVars, i, ret, fails, epoch0 >>

\* The delete that drops every record outside the scan result at once.
DeleteOk_Bulk(c) ==
    /\ pc[c] = "delete"
    /\ LET path == dbLocalContent(c)[j[c]].localFilePath
       IN  /\ store' = SelectSeq(store, LAMBDA r : r.localFilePath \in localFilePaths(c))
           /\ ops' = [ops EXCEPT ![c] = Append(@, <<"delete", path>>)]
    /\ result' = [result EXCEPT ![c].removed = @ + 1]
    /\ GotoRemovals(c, j[c] + 1, allContent[c])
    /\ UNCHANGED << fsVars, isSyncing, locVars, i, ret, fails, epoch0 >>

\* await storage.deleteContentByLocalPath(...): resolves.
DeleteOk(c) ==
    /\ pc[c] = "delete"
    /\ LET path == dbLocalContent(c)[j[c]].localFilePath
       IN  /\ store' = deleteContentByLocalPath(store, path)
           /\ ops' = [ops EXCEPT ![c] = Append(@, <<"delete", path>>)]
    /\ result' = [result EXCEPT ![c].removed = @ + 1]
    /\ GotoRemovals(c, j[c] + 1, allContent[c])
    /\ UNCHANGED << fsVars, isSyncing, locVars, i, ret, fails, epoch0 >>

\* deleteContentByLocalPath rejects inside the catch block of the removals
\* loop: the rejection reaches the outer catch and the loop is abandoned.
DeleteFails(c) ==
    /\ pc[c] = "delete"
    /\ fails[c].thrown < MaxThrown
    /\ LET path == dbLocalContent(c)[j[c]].localFilePath
       IN  ops' = [ops EXCEPT ![c] = Append(@, <<"delete", path>>)]
    /\ result' = [result EXCEPT ![c] = SyncFailed(@)]
    /\ fails' = Thrown(c)
    /\ pc' = [pc EXCEPT ![c] = "finally"]
    /\ UNCHANGED << fsVars, store, isSyncing, locVars, i, j, ret, epoch0 >>

\* ---------------------------------------------------------- the environment
\* The environment changes the filesystem at most MaxFsChanges times, at any
\* moment from the first invocation on (a change before it is another
\* initial state).
FsMayChange == fsEpoch < MaxFsChanges /\ pc[1] # "idle"

Changed(kind, from, to) ==
    [kind |-> kind, from |-> from, to |-> to, idle |-> \A c \in Calls : ~Running(c)]

\* A file is dropped into one of the media directories.
FsCreate(p) ==
    /\ FsMayChange
    /\ disk[p] = Absent
    /\ disk' = [disk EXCEPT ![p] = 1]
    /\ dirs' = dirs \cup {p.dir}
    /\ change' = Changed("create", p, p)
    /\ fsEpoch' = fsEpoch + 1
    /\ UNCHANGED << store, isSyncing, pc, locVars, i, j, result, ret, ops, fails, epoch0 >>

FsDelete(p) ==
    /\ FsMayChange
    /\ disk[p] # Absent
    /\ disk' = [disk EXCEPT ![p] = Absent]
    /\ change' = Changed("delete", p, p)
    /\ fsEpoch' = fsEpoch + 1
    /\ UNCHANGED << dirs, store, isSyncing, pc, locVars, i, j, result, ret, ops, fails, epoch0 >>

\* Rename within a directory.
FsRename(p, q) ==
    /\ FsMayChange
    /\ p.dir = q.dir
    /\ disk[p] # Absent
    /\ disk[q] = Absent
    /\ disk' = [disk EXCEPT ![p] = Absent, ![q] = disk[p]]
    /\ change' = Changed("rename", p, q)
    /\ fsEpoch' = fsEpoch + 1
    /\ UNCHANGED << dirs, store, isSyncing, pc, locVars, i, j, result, ret, ops, fails, epoch0 >>

\* A file is overwritten with content of another size.
FsResize(p) ==
    /\ FsMayChange
    /\ disk[p] # Absent
    /\ \E sz \in Sizes \ {disk[p]} : disk' = [disk EXCEPT ![p] = sz]
    /\ change' = Changed("resize", p, p)
    /\ fsEpoch' = fsEpoch + 1
    /\ UNCHANGED << dirs, store, isSyncing, pc, locVars, i, j, result, ret, ops, fails, epoch0 >>

Next ==
    \/ \E c \in Calls : syncWithLock(c)
    \/ \E c \in Calls : ScanOk(c)
    \/ \E c \in Calls : ScanFails(c)
    \/ \E c \in Calls : GetAllOk(c)
    \/ \E c \in Calls : GetAllFails(c)
    \/ \E c \in Calls : LookupOk(c)
    \/ \E c \in Calls : LookupFails(c)
    \/ \E c \in Calls : CreateOk(c)
    \/ \E c \in Calls : CreateFails(c)
    \/ \E c \in Calls : AccessOk(c)
    \/ \E c \in Calls : AccessFails(c)
    \/ \E c \in Calls : DeleteOk(c)
    \/ \E c \in Calls : DeleteFails(c)
    \/ \E c \in Calls : Finally(c)
    \/ \E p \in Paths : FsCreate(p)
    \/ \E p \in Paths : FsDelete(p)
    \/ \E p, q \in Paths : FsRename(p, q)
    \/ \E p \in Paths : FsResize(p)

Spec == Init /\ [][Next]_vars

TypeOK ==
    /\ disk \in [Paths -> {Absent} \cup Sizes]
    /\ dirs \subseteq Dirs
    /\ isSyncing \in BOOLEAN
    /\ \A p \in Paths : disk[p] # Absent => p.dir \in dirs

\* ============================================================ properties
Skipped(c) == ret[c] = Null
Returned(c) == pc[c] = "done" /\ ret[c] # Null /\ ret[c] # Pending

\* No filesystem change since invocation c was made.
NoFsChange(c) == fsEpoch = epoch0[c]

CreateCalls(c, path) ==
    Cardinality({k \in DOMAIN ops[c] : ops[c][k] = <<"create", path>>})
DeleteCalls(c, path) ==
    Cardinality({k \in DOMAIN ops[c] : ops[c][k] = <<"delete", path>>})

\* C1: an invocation of syncWithLock made while an earlier invocation is
\* still running returns null in that same step, changes neither the store
\* nor its mutation log, and a skipped invocation never runs afterwards.
C1_SkipReturnsNull ==
    [][\A c \in Calls :
         /\ (pc[c] = "idle" /\ pc'[c] # "idle" /\ (\E b \in Calls : Running(b)))
               => /\ ret'[c] = Null
                  /\ pc'[c] = "done"
                  /\ store' = store
                  /\ ops'[c] = <<>>
         /\ Skipped(c) => (pc'[c] = "done" /\ ret'[c] = Null /\ ops'[c] = <<>>)
      ]_vars

C1_Witness ==
    \E c, b \in Calls : Skipped(c) /\ pc[b] = "create" /\ Len(ops[b]) > 0

\* C2: at most one invocation is executing the sync engine at any time.
C2_MutualExclusion == Cardinality({c \in Calls : Running(c)}) <= 1

C2_Witness ==
    \E c, b \in Calls : c < b /\ Skipped(b) /\ pc[c] = "delete"

\* C3: the flag is set only while an invocation is running (it is cleared
\* when the invocation that set it finishes, whatever its result), an
\* invocation made when no run is active enters the engine, and a finishing
\* run returns its SyncResult.
C3_GuaranteedRelease ==
    [][/\ isSyncing' => \E c \in Calls : Running(c)'
       /\ \A c \in Calls :
            /\ (pc[c] = "idle" /\ pc'[c] # "idle" /\ ~(\E b \in Calls : Running(b)))
                  => pc'[c] = "scan"
            /\ (Running(c) /\ pc'[c] = "done")
                  => (~isSyncing' /\ ret'[c] = result[c] /\ ret'[c] # Null)
      ]_vars

C3_Witness ==
    \E b, c \in Calls :
        /\ b < c /\ Returned(b) /\ Returned(c)
        /\ ret[b].errors # <<>>
        /\ ~isSyncing

\* --------------------------------------------- one run of the sync engine
\* The engine of invocation c has produced its result and is about to return.
AtReturn(c) == pc[c] = "finally"

\* No scan entry failed its stat and no scan / store operation rejected.
CleanRun(c) == fails[c].stat = 0 /\ fails[c].thrown = 0

\* The store held a record with this path when the run listed it.
HadRecord(c, path) ==
    \E k \in DOMAIN allContent[c] : allContent[c][k].localFilePath = path

\* Positions of the scan result without / with a store record.
ScannedNew(c) ==
    {k \in DOMAIN localFiles[c] : ~HadRecord(c, localFiles[c][k].localFilePath)}
ScannedOld(c) ==
    {k \in DOMAIN localFiles[c] : HadRecord(c, localFiles[c][k].localFilePath)}

\* Positions of the listed local records whose path the scan did not return,
\* split by whether the path is on disk.
Unscanned(c) ==
    {k \in DOMAIN dbLocalContent(c) :
        dbLocalContent(c)[k].localFilePath \notin localFilePaths(c)}
Kept(c) == {k \in Unscanned(c) : Accessible(dbLocalContent(c)[k].localFilePath)}
Stale(c) == {k \in Unscanned(c) : ~Accessible(dbLocalContent(c)[k].localFilePath)}

InStore(path) == \E k \in DOMAIN store : store[k].localFilePath = path

\* b and c are two runs in succession: c is the first run after b.
Successive(b, c) ==
    /\ b < c
    /\ Returned(b)
    /\ \A k \in Calls : (b < k /\ k < c) => Skipped(k)

C5_Additions ==
    \A c \in Calls :
        (AtReturn(c) /\ result[c].errors = <<>>)
        => /\ \A k \in DOMAIN localFiles[c] :
                CreateCalls(c, localFiles[c][k].localFilePath)
                    = IF k \in ScannedNew(c) THEN 1 ELSE 0
           /\ result[c].added = Cardinality(ScannedNew(c))
           /\ \A k \in ScannedNew(c) :
                \E n \in DOMAIN store :
                    store[n] = convertToInsertContent(localFiles[c][k])
           /\ allContent[c] = <<>>
                => result[c] = [added |-> Len(localFiles[c]), removed |-> 0,
                                unchanged |-> 0, errors |-> <<>>]

C5_Witness ==
    \E c \in Calls :
        /\ AtReturn(c) /\ result[c].errors = <<>>
        /\ allContent[c] = <<>>
        /\ result[c].added = 2
        /\ \E m, n \in DOMAIN store :
              store[m].type = "image" /\ store[n].type = "video"

\* C6: in a run that returns without errors and without filesystem change,
\* every listed store record whose local path is not on disk got exactly one
\* deleteContentByLocalPath call and is gone, and removed is the number of
\* such records; with one such record and empty directories the counts are
\* added = 0, removed = 1, unchanged = 0.
C6_Removals ==
    \A c \in Calls :
        (AtReturn(c) /\ result[c].errors = <<>> /\ NoFsChange(c))
        => LET db == dbLocalContent(c)
               gone == {k \in DOMAIN db : ~Accessible(db[k].localFilePath)}
           IN  /\ \A k \in gone :
                    /\ DeleteCalls(c, db[k].localFilePath) = 1
                    /\ ~InStore(db[k].localFilePath)
               /\ result[c].removed = Cardinality(gone)
               /\ (Len(db) = 1 /\ gone = {1} /\ \A p \in Paths : disk[p] = Absent)
                    => /\ result[c].added = 0
                       /\ result[c].removed = 1
                       /\ result[c].unchanged = 0

C6_Witness ==
    \E c \in Calls :
        /\ AtReturn(c) /\ result[c].errors = <<>> /\ NoFsChange(c)
        /\ Len(dbLocalContent(c)) = 1
        /\ \A p \in Paths : disk[p] = Absent
        /\ result[c].removed = 1

\* C7: while no filesystem change happened since the run began, a listed
\* record whose path is on disk but was not returned by the scan has no
\* delete call and no create call and is still in the store; a run that
\* returns without errors has counted each such record in unchanged (next
\* to the scanned files that had a record).
C7_AccessibleKept ==
    \A c \in Calls :
        (Running(c) /\ NoFsChange(c))
        => /\ \A k \in Kept(c) :
                LET r == dbLocalContent(c)[k]
                IN  /\ DeleteCalls(c, r.localFilePath) = 0
                    /\ CreateCalls(c, r.localFilePath) = 0
                    /\ \E n \in DOMAIN store : store[n] = r
           /\ (AtReturn(c) /\ result[c].errors = <<>>)
                => result[c].unchanged
                     = Cardinality(ScannedOld(c)) + Cardinality(Kept(c))

C7_Witness ==
    \E c \in Calls :
        /\ AtReturn(c) /\ result[c].errors = <<>> /\ NoFsChange(c)
        /\ Kept(c) # {} /\ Stale(c) # {}
        /\ ScannedOld(c) = {}
        /\ result[c].unchanged = 1

\* ------------------------------------------------------- failure handling
LastError(c) == result[c].errors[Len(result[c].errors)]

AddErrors(c) ==
    {k \in DOMAIN result[c].errors : result[c].errors[k].msg = "Error adding"}

\* The run was cut short by the outer catch.
TopLevelFailure(c) ==
    result[c].errors # <<>> /\ LastError(c).msg = "Sync failed"

C9_CreateFailureSkipsItem ==
    [][\A c \in Calls :
         /\ (pc[c] = "create" /\ fails'[c].thrown = fails[c].thrown + 1)
              => /\ result'[c] = [result[c] EXCEPT !.errors =
                        Append(@, [msg |-> "Error adding",
                                   title |-> localFiles[c][i[c]].title])]
                 /\ store' = store
                 /\ IF i[c] < Len(localFiles[c])
                    THEN pc'[c] = "lookup" /\ i'[c] = i[c] + 1
                    ELSE IF Unscanned(c) = {}
                    THEN pc'[c] = "finally"
                    ELSE /\ pc'[c] = "access"
                         /\ j'[c] \in Unscanned(c)
                         /\ \A k \in Unscanned(c) : j'[c] <= k
         /\ (AtReturn(c) /\ NoFsChange(c) /\ ~TopLevelFailure(c))'
              => /\ result'[c].added + Cardinality(AddErrors(c)')
                      + (result'[c].unchanged - Cardinality(Kept(c)'))
                    = Len(localFiles'[c])
                 /\ result'[c].removed = Cardinality(Unscanned(c)' \ Kept(c)')
      ]_vars

C9_Witness ==
    \E c \in Calls :
        /\ AtReturn(c) /\ NoFsChange(c)
        /\ Len(localFiles[c]) = 2
        /\ Len(result[c].errors) = 1
        /\ result[c].errors[1] = [msg |-> "Error adding", title |-> localFiles[c][1].title]
        /\ Len(ops[c]) = 4
        /\ ops[c][1] = <<"create", localFiles[c][1].localFilePath>>
        /\ result[c].added = 1
        /\ result[c].removed = 2

\* C10: when deleteContentByLocalPath rejects for one stale record, every
\* other stale record of the run (path not scanned, not on disk) is still
\* deleted and counted in removed.
C10_BestEffortRemovals ==
    \A c \in Calls :
        (/\ AtReturn(c) /\ NoFsChange(c)
         /\ TopLevelFailure(c)
         /\ ops[c] # <<>> /\ ops[c][Len(ops[c])][1] = "delete")
        => LET db == dbLocalContent(c)
               failedPath == ops[c][Len(ops[c])][2]
               others == {k \in Unscanned(c) \ Kept(c) : db[k].localFilePath # failedPath}
           IN  /\ \A k \in others : ~InStore(db[k].localFilePath)
               /\ result[c].removed = Cardinality(others)

\* ------------------------------------------------------- scan failures
\* The scenario of C11: the store was empty, the directories hold three
\* allow-listed files, exactly one of them failed its stat, nothing else
\* failed, and the engine is about to return.
C11_Scenario(c) ==
    /\ AtReturn(c) /\ NoFsChange(c)
    /\ allContent[c] = <<>>
    /\ Cardinality(StatCandidates(disk)) = 3
    /\ fails[c].stat = 1 /\ fails[c].thrown = 0

\* C11 (as stated): in that scenario the run returns added = 2,
\* unchanged = 0 and exactly one entry in errors.
C11_Original ==
    \A c \in Calls :
        C11_Scenario(c)
        => /\ result[c].added = 2
           /\ result[c].unchanged = 0
           /\ Len(result[c].errors) = 1

\* C11 (amended): in that scenario the run returns added = 2, unchanged = 0
\* and an empty errors list: the entry whose stat failed is skipped without
\* being recorded.
C11_StatFailureUnrecorded ==
    \A c \in Calls :
        C11_Scenario(c)
        => /\ result[c].added = 2
           /\ result[c].unchanged = 0
           /\ result[c].errors = <<>>

C11_Witness ==
    \E c \in Calls :
        /\ C11_Scenario(c)
        /\ Len(store) = 2
        /\ result[c].removed = 0

\* --------------------------------------------------------- path uniqueness
LocalPathsOf(s) == {s[k].localFilePath : k \in DOMAIN s} \ {Null}

RecordsAt(s, path) == Cardinality({k \in DOMAIN s : s[k].localFilePath = path})

\* C12: the store never holds two records with the same non-null local path.
C12_PathUniqueness ==
    \A m, n \in DOMAIN store :
        (m # n /\ store[m].localFilePath # Null)
            => store[m].localFilePath # store[n].localFilePath

C12_Witness ==
    \E b, c \in Calls :
        /\ b < c /\ Returned(b) /\ ret[b].added >= 1
        /\ Skipped(b) = FALSE
        /\ AtReturn(c) /\ result[c].added >= 1 /\ result[c].unchanged >= 1
        /\ fsEpoch >= 1 /\ change.kind \in {"create", "rename"}

\* ------------------------------------------------- deleted / renamed files
\* The directory contents before the latest change (sizes aside), while
\* nothing changed after it.
PreChangeDisk ==
    CASE change.kind = "delete" -> [disk EXCEPT ![change.from] = 1]
      [] change.kind = "rename" ->
            [disk EXCEPT ![change.from] = disk[change.to], ![change.to] = Absent]
      [] change.kind = "create" -> [disk EXCEPT ![change.from] = Absent]
      [] OTHER -> disk

\* Run c is the first run made after the latest change, a deletion or a
\* rename of a scanned file that had a store record, made while no run was
\* active; nothing changed since, the run met no failure and is about to
\* return.
C13_Case(c) ==
    /\ AtReturn(c) /\ CleanRun(c)
    /\ change.kind \in {"delete", "rename"}
    /\ change.idle
    /\ epoch0[c] = fsEpoch
    /\ \A b \in Calls : b < c => epoch0[b] < fsEpoch
    /\ change.from \in StatCandidates(PreChangeDisk)
    /\ HadRecord(c, change.from)

RenamedToMedia == change.kind = "rename" /\ change.to \in StatCandidates(disk)

\* Before the change the store matched the directories: every scanned file
\* had a record and no record had lost its file.
C13_InSync(c) ==
    /\ \A p \in StatCandidates(PreChangeDisk) : HadRecord(c, p)
    /\ \A k \in DOMAIN dbLocalContent(c) :
          PreChangeDisk[dbLocalContent(c)[k].localFilePath] # Absent

\* C13 (as stated): the next run leaves no record for the old path and, for
\* a rename to an allow-listed name, exactly one record for the new path; it
\* reports removed = 1 and, for such a rename, added = 1.
C13_Original ==
    \A c \in Calls :
        C13_Case(c)
        => /\ ~InStore(change.from)
           /\ RenamedToMedia => RecordsAt(store, change.to) = 1
           /\ result[c].removed = 1
           /\ RenamedToMedia => result[c].added = 1

\* C13 (amended): the next run leaves no record for the old path and, for a
\* rename to an allow-listed name, exactly one record for the new path; when
\* the store matched the directories before the change it reports
\* removed = 1 and, for such a rename, added = 1.
C13_UpdateOnNextScan ==
    \A c \in Calls :
        C13_Case(c)
        => /\ ~InStore(change.from)
           /\ RenamedToMedia => RecordsAt(store, change.to) = 1
           /\ C13_InSync(c)
                => /\ result[c].removed = 1
                   /\ RenamedToMedia => result[c].added = 1

C13_Witness ==
    \E c \in Calls :
        /\ C13_Case(c) /\ C13_InSync(c)
        /\ RenamedToMedia
        /\ result[c].unchanged >= 1

\* --------------------------------------------------------------- the scan
\* The directory a path lies in accepts its extension.
AllowListed(p) ==
    \/ p.dir = IMAGES_DIR /\ ToLowerCase(p.ext) \in IMAGE_EXTENSIONS
    \/ p.dir = VIDEOS_DIR /\ ToLowerCase(p.ext) \in VIDEO_EXTENSIONS

OnDiskMedia == {p \in Paths : disk[p] # Absent /\ AllowListed(p)}

\* C14: a scan that resolves returns only allow-listed entries that are on
\* disk and misses exactly as many of them as stats rejected in it, so every
\* other entry of both directories has its descriptor; and a run that then
\* meets no rejected store operation (nor a filesystem change) has a record
\* in the store for every descriptor.
C14_StatFailureSkipsOnlyEntry ==
    [][\A c \in Calls :
         /\ (pc[c] = "scan" /\ pc'[c] = "getAll")
              => /\ localFilePaths(c)' \subseteq OnDiskMedia
                 /\ Cardinality(localFilePaths(c)')
                      = Cardinality(OnDiskMedia) - (fails'[c].stat - fails[c].stat)
         /\ (AtReturn(c) /\ NoFsChange(c) /\ fails[c].thrown = 0)'
              => \A p \in localFilePaths(c)' : InStore(p)'
      ]_vars

C14_Witness ==
    \E c \in Calls :
        /\ AtReturn(c) /\ NoFsChange(c)
        /\ fails[c].stat = 1 /\ fails[c].thrown = 0
        /\ Cardinality(OnDiskMedia) = 3
        /\ {f.dir : f \in localFilePaths(c)} = Dirs
        /\ result[c].unchanged >= 1 /\ result[c].added >= 1

\* -------------------------------------------------------- frame conditions
\* The records the run listed for a path.
ListedAt(c, path) ==
    {allContent[c][k] : k \in {n \in DOMAIN allContent[c] :
                                  allContent[c][n].localFilePath = path}}

StoredAt(path) ==
    {store[k] : k \in {n \in DOMAIN store : store[n].localFilePath = path}}

\* A scanned file whose size differs from the size its record holds.
Drifted(c, k) ==
    /\ k \in ScannedOld(c)
    /\ \E r \in ListedAt(c, localFiles[c][k].localFilePath) :
          r.fileSize # localFiles[c][k].fileSize

\* C15: for a scanned file whose path had a store record, the run issues no
\* create and no delete for that path and the records stored for the path
\* stay exactly the listed ones, whatever the file's size; a run that returns
\* without errors has counted every such file in unchanged.
C15_NoUpdateInPlace ==
    \A c \in Calls :
        Running(c) =>
            /\ \A k \in ScannedOld(c) :
                  LET path == localFiles[c][k].localFilePath
                  IN  /\ CreateCalls(c, path) = 0
                      /\ DeleteCalls(c, path) = 0
                      /\ StoredAt(path) = ListedAt(c, path)
            /\ (AtReturn(c) /\ result[c].errors = <<>>)
                  => result[c].unchanged >= Cardinality(ScannedOld(c))

C15_Witness ==
    \E c \in Calls :
        /\ AtReturn(c) /\ result[c].errors = <<>>
        /\ \E k \in DOMAIN localFiles[c] : Drifted(c, k)
        /\ result[c].unchanged = 1

\* The records without a local path, in store order.
RemoteRecords(s) == SelectSeq(s, LAMBDA r : r.localFilePath = Null)

\* Positions of the listing that hold a local path the scan did not return.
ListedUnscanned(c) ==
    {k \in DOMAIN allContent[c] :
        /\ allContent[c][k].localFilePath # Null
        /\ allContent[c][k].localFilePath \notin localFilePaths(c)}

\* C16: no step changes the records without a local path; no store mutation
\* is issued for a null path; and a run that returns without errors has
\* counted the scanned files and the listed local records outside the scan,
\* once each, and nothing else.
C16_RemoteRecordsUntouched ==
    [][/\ RemoteRecords(store') = RemoteRecords(store)
       /\ \A c \in Calls :
            /\ \A k \in DOMAIN ops'[c] : ops'[c][k][2] # Null
            /\ (AtReturn(c) /\ result[c].errors = <<>>)'
                 => result'[c].added + result'[c].removed + result'[c].unchanged
                      = Len(localFiles'[c]) + Cardinality(ListedUnscanned(c)')
      ]_vars

C16_Witness ==
    \E c \in Calls :
        /\ AtReturn(c) /\ result[c].errors = <<>>
        /\ RemoteRecords(allContent[c]) = <<RemoteRecord>>
        /\ RemoteRecords(store) = <<RemoteRecord>>
        /\ result[c].added >= 1 /\ result[c].removed >= 1

\* C17: within a run no path gets more than one store mutation, creates go
\* to scanned paths that had no record and deletes to paths outside the
\* scan, and the counters together with the per-item errors never exceed one
\* per scanned file plus one per listed record outside the scan.
C17_NoDoubleCounting ==
    \A c \in Calls :
        Running(c) =>
            /\ \A p \in Paths :
                  /\ CreateCalls(c, p) + DeleteCalls(c, p) <= 1
                  /\ CreateCalls(c, p) > 0
                        => (p \in localFilePaths(c) /\ ~HadRecord(c, p))
                  /\ DeleteCalls(c, p) > 0 => p \notin localFilePaths(c)
            /\ result[c].added <= Cardinality(ScannedNew(c))
            /\ result[c].removed <= Cardinality(ListedUnscanned(c))
            /\ result[c].added + result[c].removed + result[c].unchanged
                  + Cardinality(AddErrors(c))
                 <= Len(localFiles[c]) + Cardinality(ListedUnscanned(c))

C17_Witness ==
    \E c \in Calls :
        /\ AtReturn(c) /\ result[c].errors = <<>>
        /\ result[c].added = 2
        /\ result[c].unchanged = 1
        /\ result[c].removed = 1
        /\ ScannedOld(c) # {}

C20_Convergence ==
    \A c \in Calls :
        (AtReturn(c) /\ result[c].errors = <<>> /\ NoFsChange(c))
            => /\ LocalPathsOf(store)
                    = localFilePaths(c)
                        \cup {p \in LocalPathsOf(allContent[c]) : Accessible(p)}
               /\ \A p \in localFilePaths(c) : InStore(p)
               /\ \A p \in LocalPathsOf(store) : Accessible(p)

C20_Witness ==
    \E c \in Calls :
        /\ AtReturn(c) /\ result[c].errors = <<>> /\ NoFsChange(c)
        /\ result[c].added >= 1 /\ result[c].removed >= 1
        /\ \E p \in LocalPathsOf(allContent[c]) : InStore(p)
        /\ LocalPathsOf(store) # LocalPathsOf(allContent[c])

====
